---------------------------- MODULE Spec2Model ----------------------------
(***************************************************************************)
(* Model of the Bunny OBJ viewer (src/main.cpp): program entry with its    *)
(* three fatal initialisation steps, the shader/pipeline builder and the   *)
(* GL object lifetimes it produces, the geometry loader with its           *)
(* value-keyed vertex deduplication, the texture loader's format mapping,  *)
(* the frame loop, and the four GLFW input callbacks.                      *)
(*                                                                         *)
(* Numbers.  zoom is a float changed by y / 4.f and rotation a float pair  *)
(* changed by d / 10.f.  The model keeps both as exact integers counted in *)
(* units of 1/ZoomScale and 1/RotScale, so zoom = 40 is 40 * ZoomScale and *)
(* a scroll of y input units adds y model units.  Float rounding is not    *)
(* modelled.  Mesh floats are compared exactly by the code; the model uses *)
(* integers for them.                                                      *)
(***************************************************************************)
EXTENDS Integers, Sequences, FiniteSets, TLC

VARIABLES
    pc,                \* position of main(), or of the driver of a unit
    exitStatus,        \* value returned by main()
    ndebug,            \* build configuration: TRUE when NDEBUG is defined
    failures,          \* the failures the environment has produced so far
    enteredLoop,       \* the while condition of the frame loop was evaluated
    gl,                \* GL object table: name -> lifetime record
    frameCalls,        \* GL/GLFW calls issued by the current loop iteration
    objFile,           \* what tinyobj::LoadObj yields for the mesh file
    vertices,          \* global std::vector<Vertex> vertices
    indices,           \* global std::vector<uint32_t> indices
    runs,              \* number of completed loadModel calls
    firstRun,          \* copy of (vertices, indices) taken after the first call
    comp,              \* loadTexture's requested channel layout
    image,             \* the image file: decodable or not
    texture,           \* what createTexture2D was asked to build
    windowShouldClose, \* GLFW close flag of the window
    cursorMode,        \* GLFW_CURSOR input mode of the window
    cursorX, cursorY,  \* globals cursorX, cursorY (drag baseline)
    winCursor,         \* cursor position GLFW holds for the window
    rotation,          \* global rotation, in 1/RotScale degrees
    zoom,              \* global zoom, in 1/ZoomScale units
    lastEvent,         \* the event most recently dispatched to a callback
    nEvents,           \* number of events dispatched so far
    eventLog,          \* the events dispatched so far (input driver only)
    startCursor        \* the cursor position when the callbacks were installed

progVars   == <<pc, exitStatus, ndebug, failures, enteredLoop, gl, frameCalls>>
loaderVars == <<objFile, vertices, indices, runs, firstRun>>
texVars    == <<comp, image, texture>>
inputVars  == <<windowShouldClose, cursorMode, cursorX, cursorY, winCursor,
                rotation, zoom>>
eventVars  == <<lastEvent, nEvents, eventLog, startCursor>>
vars == <<progVars, loaderVars, texVars, inputVars, eventVars>>

----------------------------------------------------------------------------
(* Bounds of the model *)

MaxEvents == 3        \* events dispatched in the input driver
MaxLoopEvents == 2    \* events dispatched during one run of main()
MaxFaces == 2         \* triangles in a mesh file
MaxComp == 6          \* largest requested channel-layout value tried

----------------------------------------------------------------------------
(* Camera state and the input callbacks (main.cpp 46-51, 268-317) *)

InitialZoom == 40
ZoomScale == 4
RotScale == 10

NoEvent == [type |-> "none", a |-> 0, b |-> 0, name |-> "none", action |-> "none"]

Keys == {"GLFW_KEY_ESCAPE", "GLFW_KEY_A"}
KeyActions == {"GLFW_PRESS", "GLFW_RELEASE", "GLFW_REPEAT"}
Buttons == {"GLFW_MOUSE_BUTTON_LEFT", "GLFW_MOUSE_BUTTON_RIGHT"}
ButtonActions == {"GLFW_PRESS", "GLFW_RELEASE"}
CursorPositions == {<<0, 0>>, <<30, -20>>}
ScrollDeltas == {-200, -3, 5}

KeyEv(k, act)    == [type |-> "key", a |-> 0, b |-> 0, name |-> k, action |-> act]
ButtonEv(bt, act) == [type |-> "button", a |-> 0, b |-> 0, name |-> bt, action |-> act]
CursorEv(x, y)   == [type |-> "cursor", a |-> x, b |-> y, name |-> "none", action |-> "none"]
ScrollEv(x, y)   == [type |-> "scroll", a |-> x, b |-> y, name |-> "none", action |-> "none"]
CloseEv          == [type |-> "close", a |-> 0, b |-> 0, name |-> "none", action |-> "none"]

KeyClosesOnAnyAction(key, action) == key = "GLFW_KEY_ESCAPE"

\* key_callback's condition: Escape pressed.
KeyCloses(key, action) == key = "GLFW_KEY_ESCAPE" /\ action = "GLFW_PRESS"

key_callback(key, action) ==
    /\ windowShouldClose' = (IF KeyCloses(key, action) THEN TRUE ELSE windowShouldClose)
    /\ UNCHANGED <<cursorMode, cursorX, cursorY, winCursor, rotation, zoom>>

\* The window system's close request: GLFW sets the close flag itself (no
\* close callback is installed).
window_close_request ==
    /\ windowShouldClose' = TRUE
    /\ UNCHANGED <<cursorMode, cursorX, cursorY, winCursor, rotation, zoom>>

ButtonModeAnyButton(button, action, mode) ==
    IF action = "GLFW_PRESS" THEN "GLFW_CURSOR_DISABLED" ELSE "GLFW_CURSOR_NORMAL"

\* mouse_button_callback: the cursor mode it selects (the mode is left as it is
\* for any button but the left one).
ButtonMode(button, action, mode) ==
    IF button /= "GLFW_MOUSE_BUTTON_LEFT" THEN mode
    ELSE IF action = "GLFW_PRESS" THEN "GLFW_CURSOR_DISABLED"
    ELSE "GLFW_CURSOR_NORMAL"

mouse_button_callback(button, action) ==
    /\ cursorMode' = ButtonMode(button, action, cursorMode)
    /\ IF button = "GLFW_MOUSE_BUTTON_LEFT" /\ action = "GLFW_PRESS"
       THEN cursorX' = winCursor[1] /\ cursorY' = winCursor[2]   \* glfwGetCursorPos
       ELSE UNCHANGED <<cursorX, cursorY>>
    /\ UNCHANGED <<windowShouldClose, winCursor, rotation, zoom>>

\* cursor_position_callback: the new value of one rotation component.
Rotate(mode, rot, pos, base) ==
    IF mode = "GLFW_CURSOR_DISABLED" THEN rot + (pos - base) ELSE rot

cursor_position_callback(x, y) ==
    /\ winCursor' = <<x, y>>
    /\ rotation' = <<Rotate(cursorMode, rotation[1], x, cursorX),
                     Rotate(cursorMode, rotation[2], y, cursorY)>>
    /\ IF cursorMode = "GLFW_CURSOR_DISABLED"
       THEN cursorX' = x /\ cursorY' = y
       ELSE UNCHANGED <<cursorX, cursorY>>
    /\ UNCHANGED <<windowShouldClose, cursorMode, zoom>>

ScrollZoomNoClamp(z, y) == z + y

\* scroll_callback: zoom += y / 4; if (zoom < 0) zoom = 0.
ScrollZoom(z, y) ==
    LET sum == z + y
    IN  IF sum < 0 THEN 0 ELSE sum

scroll_callback(x, y) ==
    /\ zoom' = ScrollZoom(zoom, y)
    /\ UNCHANGED <<windowShouldClose, cursorMode, cursorX, cursorY, winCursor, rotation>>

----------------------------------------------------------------------------
(* Event dispatch: what glfwPollEvents does with one pending event *)

KeyEvent ==
    \E k \in Keys, act \in KeyActions :
        key_callback(k, act) /\ lastEvent' = KeyEv(k, act)

CloseRequest ==
    window_close_request /\ lastEvent' = CloseEv

MouseButtonEvent ==
    \E bt \in Buttons, act \in ButtonActions :
        mouse_button_callback(bt, act) /\ lastEvent' = ButtonEv(bt, act)

CursorPosEvent ==
    \E p \in CursorPositions :
        cursor_position_callback(p[1], p[2]) /\ lastEvent' = CursorEv(p[1], p[2])

ScrollEvent ==
    \E y \in ScrollDeltas :
        scroll_callback(0, y) /\ lastEvent' = ScrollEv(0, y)

InputInit ==
    /\ windowShouldClose = FALSE
    /\ cursorMode = "GLFW_CURSOR_NORMAL"
    /\ cursorX = 0
    /\ cursorY = 0
    /\ winCursor \in CursorPositions
    /\ startCursor = winCursor
    /\ rotation = <<0, 0>>
    /\ zoom = InitialZoom * ZoomScale
    /\ lastEvent = NoEvent
    /\ nEvents = 0
    /\ eventLog = <<>>


----------------------------------------------------------------------------
(* GL object lifetimes.  A name is "none" before it is created, "live"     *)
(* after, "flagged" when a shader was deleted while attached (GL deletes   *)
(* it on detach) and "dead" once destroyed.  deletes counts the glDelete*  *)
(* calls issued on the name; usedDead records a GL call that was handed    *)
(* the name after its destruction.                                        *)

Shaders == {"vs", "fs"}
Buffers == {"buffer_VERTEX", "buffer_ELEMENT", "buffer_TRANSFORM"}
Objects == Shaders \cup Buffers \cup {"program", "pipeline", "vao", "tex"}

NoObject == [state |-> "none", deletes |-> 0, usedDead |-> FALSE, attached |-> FALSE]

GlCreate(t, o) == [t EXCEPT ![o].state = "live"]

GlUse(t, o) == IF t[o].state = "dead" THEN [t EXCEPT ![o].usedDead = TRUE] ELSE t

\* glDeleteShader / glDeleteProgram / glDelete*(1, &name)
GlDelete(t, o) ==
    [t EXCEPT ![o].deletes = @ + 1,
              ![o].state = IF @ = "live"
                           THEN (IF t[o].attached THEN "flagged" ELSE "dead")
                           ELSE @]

GlAttachShader(t, p, s) ==
    IF t[p].state = "live" /\ t[s].state = "live"
    THEN [t EXCEPT ![s].attached = TRUE]
    ELSE GlUse(GlUse(t, p), s)

GlDetachShader(t, p, s) ==
    IF t[p].state = "live" /\ t[s].attached
    THEN [t EXCEPT ![s].attached = FALSE,
                   ![s].state = IF @ = "flagged" THEN "dead" ELSE @]
    ELSE GlUse(GlUse(t, p), s)

\* glDeleteProgram on a live program also detaches what is attached to it.
GlDeleteProgram(t, p) ==
    LET wasLive == t[p].state = "live"
        t1 == GlDelete(t, p)
    IN  IF wasLive
        THEN [o \in Objects |->
                IF o \in Shaders /\ t1[o].attached
                THEN [t1[o] EXCEPT !.attached = FALSE,
                                   !.state = IF @ = "flagged" THEN "dead" ELSE @]
                ELSE t1[o]]
        ELSE t1

\* The condition of checkShader and checkProgram: maxLength > 0, and under
\* NDEBUG also status == GL_FALSE.
ChecksLog(nd, ok, hasLog) == hasLog /\ (nd => ~ok)

\* checkShader: when it logs it also calls glDeleteShader(shader).
checkShader(t, shader, isCompiled, hasLog) ==
    LET t1 == GlUse(t, shader)
    IN  IF ChecksLog(ndebug, isCompiled, hasLog) THEN GlDelete(t1, shader) ELSE t1

\* checkProgram: when it logs it also calls glDeleteProgram(program).
checkProgram(t, program, isLinked, hasLog) ==
    LET t1 == GlUse(t, program)
    IN  IF ChecksLog(ndebug, isLinked, hasLog) THEN GlDeleteProgram(t1, program) ELSE t1

\* createShader: glCreateShader, glShaderSource, glCompileShader, checkShader.
createShader(t, shader, isCompiled, hasLog) ==
    checkShader(GlUse(GlUse(GlCreate(t, shader), shader), shader),
                shader, isCompiled, hasLog)

\* createShaderProgram after the two createShader calls.  The static
\* reference `shaders` binds a temporary array {vs, fs} that lives as long as
\* the reference and is initialised by the first call, the only one main() makes.
linkShaderProgram(t, isLinked, hasLog) ==
    LET t1 == GlUse(GlCreate(t, "program"), "program")      \* glProgramParameteri
        t2 == GlAttachShader(GlAttachShader(t1, "program", "vs"), "program", "fs")
        t3 == checkProgram(GlUse(t2, "program"), "program", isLinked, hasLog)
        t4 == GlDelete(GlDetachShader(t3, "program", "vs"), "vs")
        t5 == GlDelete(GlDetachShader(t4, "program", "fs"), "fs")
        t6 == GlCreate(t5, "pipeline")
    IN  GlUse(GlUse(t6, "pipeline"), "program")               \* glUseProgramStages


----------------------------------------------------------------------------
(* Geometry loader (main.cpp 53-74, 319-369).  attrib.vertices and         *)
(* attrib.texcoords are the flat float arrays of tinyobj (0-based in the   *)
(* code, 1-based here); an index is a (vertex_index, texcoord_index) pair. *)

White == <<1, 1, 1, 1>>

\* Lines 345-359: the candidate built for one face-vertex reference.
VertexOf(att, index) ==
    [position |-> <<att.vertices[3 * index.vertex_index + 0 + 1],
                    att.vertices[3 * index.vertex_index + 1 + 1],
                    att.vertices[3 * index.vertex_index + 2 + 1],
                    1>>,
     color    |-> White,
     texcoord |-> <<att.texcoords[2 * index.texcoord_index + 0 + 1],
                    att.texcoords[2 * index.texcoord_index + 1 + 1]>>]

VertexEqNoTexcoord(a, b) ==
    a.position = b.position /\ a.color = b.color

\* Vertex::operator==
VertexEq(a, b) ==
    a.position = b.position /\ a.color = b.color /\ a.texcoord = b.texcoord

\* uniqueVertices is a set of (key, value) pairs whose keys differ under
\* operator==.  count(vertex) and operator[] on a present key:
MapCount(unique, vertex) == Cardinality({e \in unique : VertexEq(e[1], vertex)})

MapAt(unique, vertex) == (CHOOSE e \in unique : VertexEq(e[1], vertex))[2]

NewIndexOneBased(vs) == Len(vs) + 1

\* static_cast<uint32_t>(vertices.size()); sizes here stay far below 2^32.
NewIndex(vs) == Len(vs)

\* Lines 345-366: one iteration of the inner loop.
LoadOne(st, att, index) ==
    LET vertex == VertexOf(att, index)
        isNew == MapCount(st.unique, vertex) = 0
        unique1 == IF isNew
                   THEN st.unique \cup {<<vertex, NewIndex(st.vertices)>>}
                   ELSE st.unique
        vertices1 == IF isNew THEN Append(st.vertices, vertex) ELSE st.vertices
    IN  [unique   |-> unique1,
         vertices |-> vertices1,
         indices  |-> Append(st.indices, MapAt(unique1, vertex))]

RECURSIVE ForIndices(_, _, _, _)
ForIndices(st, att, meshIndices, k) ==
    IF k > Len(meshIndices) THEN st
    ELSE ForIndices(LoadOne(st, att, meshIndices[k]), att, meshIndices, k + 1)

RECURSIVE ForShapes(_, _, _, _)
ForShapes(st, att, shps, s) ==
    IF s > Len(shps) THEN st
    ELSE ForShapes(ForIndices(st, att, shps[s], 1), att, shps, s + 1)

\* loadModel: a fresh local map, the global vectors as they are.
loadModel(file) ==
    LET st == ForShapes([unique |-> {}, vertices |-> vertices, indices |-> indices],
                        file.attrib, file.shapes, 1)
    IN  /\ vertices' = st.vertices
        /\ indices' = st.indices

\* Mesh files.  An unreadable file makes LoadObj return false and leave
\* attrib and shapes empty.  Readable files carry two positions and two
\* texture coordinates, possibly equal in value, and faces whose
\* references name both a position and a texture coordinate.
Unreadable == [ret |-> FALSE, attrib |-> [vertices |-> <<>>, texcoords |-> <<>>],
               shapes |-> <<>>]

Attribs ==
    { [vertices |-> <<0, 0, 0, 1, 0, 0>>, texcoords |-> <<0, 0, 0, 1>>],
      [vertices |-> <<0, 0, 0, 0, 0, 0>>, texcoords |-> <<0, 0, 0, 1>>],
      [vertices |-> <<0, 0, 0, 1, 0, 0>>, texcoords |-> <<1, 1, 1, 1>>] }

\* The references faces are built from: (0,0), (1,0) and (1,1).
Refs == {r \in [vertex_index : 0..1, texcoord_index : 0..1] :
            r.texcoord_index <= r.vertex_index}

Faces == [1..3 -> Refs]

RECURSIVE Concat(_)
Concat(ss) == IF ss = <<>> THEN <<>> ELSE Head(ss) \o Concat(Tail(ss))

\* The shapes of a file of n faces: all faces in one shape, or a shape each.
Layouts(n) ==
    IF n = 0 THEN {<<>>}
    ELSE LET perFace == [1..n -> Faces]
         IN  perFace \cup {<<Concat(f)>> : f \in perFace}

ObjFiles ==
    {Unreadable} \cup
    {[ret |-> TRUE, attrib |-> att, shapes |-> sh] :
        att \in Attribs, sh \in UNION {Layouts(n) : n \in 0..MaxFaces}}

OneTriangle ==
    <<[vertex_index |-> 0, texcoord_index |-> 0],
      [vertex_index |-> 1, texcoord_index |-> 0],
      [vertex_index |-> 1, texcoord_index |-> 1]>>

\* The files main() is run on.
MainObjFiles ==
    {Unreadable,
     [ret |-> TRUE,
      attrib |-> [vertices |-> <<0, 0, 0, 1, 0, 0>>, texcoords |-> <<0, 0, 0, 1>>],
      shapes |-> <<OneTriangle>>]}

\* The face-vertex references of a file, in file order.
FaceStream(file) == Concat(file.shapes)

----------------------------------------------------------------------------
(* Texture loader (main.cpp 371-429) *)

STBI_default == 0
STBI_grey == 1
STBI_grey_alpha == 2
STBI_rgb == 3
STBI_rgb_alpha == 4

MaxDim == 2
Images == {[decodable |-> FALSE, w |-> 0, h |-> 0]} \cup
          {[decodable |-> TRUE, w |-> w, h |-> h] : w \in 1..MaxDim, h \in 1..MaxDim}
MainImages == {[decodable |-> FALSE, w |-> 0, h |-> 0],
               [decodable |-> TRUE, w |-> 1, h |-> 1]}

\* Values an uninitialised int w or h may hold when stbi_load fails.
Indeterminate == {-1, 1}

NoTexture == [internalformat |-> "none", format |-> "none",
              width |-> 0, height |-> 0, uploaded |-> FALSE]

FormatOfSwapped(c) ==
    CASE c = STBI_rgb_alpha  -> <<"GL_RGBA8", "GL_RGBA">>
      [] c = STBI_rgb        -> <<"GL_RGB8", "GL_RGB">>
      [] c = STBI_grey       -> <<"GL_RG8", "GL_RG">>
      [] c = STBI_grey_alpha -> <<"GL_R8", "GL_RED">>
      [] OTHER               -> <<"GL_RGBA8", "GL_RGBA">>

\* Lines 412-422: the switch on comp.
FormatOf(c) ==
    CASE c = STBI_rgb_alpha  -> <<"GL_RGBA8", "GL_RGBA">>
      [] c = STBI_rgb        -> <<"GL_RGB8", "GL_RGB">>
      [] c = STBI_grey       -> <<"GL_R8", "GL_RED">>
      [] c = STBI_grey_alpha -> <<"GL_RG8", "GL_RG">>
      [] OTHER               -> <<"GL_RGBA8", "GL_RGBA">>

\* stbi_load yields data only for a decodable file and a layout of 0..4.
Decodes(img, c) == img.decodable /\ c \in STBI_default..STBI_rgb_alpha

\* loadTexture(filename, c): builds the texture and reports a decode failure.
loadTexture(c) ==
    LET data == Decodes(image, c)
        fmt == FormatOf(c)
    IN  /\ \E w \in (IF data THEN {image.w} ELSE Indeterminate),
              h \in (IF data THEN {image.h} ELSE Indeterminate) :
             texture' = [internalformat |-> fmt[1], format |-> fmt[2],
                         width |-> w, height |-> h, uploaded |-> data]
        /\ gl' = GlUse(GlCreate(gl, "tex"), "tex")
        /\ failures' = IF data THEN failures ELSE failures \cup {"stbi_load"}


----------------------------------------------------------------------------
(* main() (main.cpp 150-266) *)

Call(name, n) == [call |-> name, arg |-> n]

DrawCountTriangles(ix) == Len(ix) \div 3

\* Line 250: static_cast<GLsizei>(indices.size())
DrawCount(ix) == Len(ix)

\* Lines 235-252: the calls of one loop iteration up to the buffer swap.
FrameCalls(ix) ==
    << Call("glMapNamedBufferRange", 0),
       Call("write MVP", 0),
       Call("glUnmapNamedBuffer", 0),
       Call("glClearBufferfv", 0),
       Call("glClearBufferfv", 0),
       Call("glBindProgramPipeline", 0),
       Call("glBindVertexArray", 0),
       Call("glBindTextureUnit", 0),
       Call("glBindBufferBase", 0),
       Call("glBindBufferBase", 0),
       Call("glDrawElementsInstanced", DrawCount(ix)),
       Call("glfwSwapBuffers", 0) >>

\* The GL names one iteration hands to GL.
FrameUses(t) ==
    GlUse(GlUse(GlUse(GlUse(GlUse(t, "buffer_TRANSFORM"), "pipeline"), "vao"),
                "tex"), "buffer_VERTEX")

FatalStepsWithoutGlad == {"glfwInit", "glfwCreateWindow"}

\* Lines 152-180: the steps whose failure makes main() return -1.
FatalSteps == {"glfwInit", "glfwCreateWindow", "gladLoadGLLoader"}

InitStep(step, next) ==
    /\ pc = step
    /\ \E ok \in BOOLEAN :
         IF ok
         THEN pc' = next /\ UNCHANGED <<exitStatus, failures>>
         ELSE /\ failures' = failures \cup {step}
              /\ IF step \in FatalSteps
                 THEN pc' = "done" /\ exitStatus' = -1
                 ELSE pc' = next /\ UNCHANGED exitStatus
    /\ UNCHANGED <<ndebug, enteredLoop, gl, frameCalls>>
    /\ UNCHANGED <<loaderVars, texVars, inputVars, eventVars>>

GlfwInit == InitStep("glfwInit", "glfwCreateWindow")

CreateWindow == InitStep("glfwCreateWindow", "gladLoadGLLoader")

LoadGL == InitStep("gladLoadGLLoader", "createShader_vs")

CreateShader(step, shader, next) ==
    /\ pc = step
    /\ \E isCompiled \in BOOLEAN, hasLog \in BOOLEAN :
         /\ gl' = createShader(gl, shader, isCompiled, hasLog)
         /\ failures' = IF isCompiled THEN failures ELSE failures \cup {"compile"}
    /\ pc' = next
    /\ UNCHANGED <<exitStatus, ndebug, enteredLoop, frameCalls>>
    /\ UNCHANGED <<loaderVars, texVars, inputVars, eventVars>>

CreateVertexShader == CreateShader("createShader_vs", "vs", "createShader_fs")

CreateFragmentShader == CreateShader("createShader_fs", "fs", "linkProgram")

\* A program links only when both stages compiled.
LinkProgram ==
    /\ pc = "linkProgram"
    /\ \E isLinked \in BOOLEAN, hasLog \in BOOLEAN :
         /\ isLinked => "compile" \notin failures
         /\ gl' = linkShaderProgram(gl, isLinked, hasLog)
         /\ failures' = IF isLinked THEN failures ELSE failures \cup {"link"}
    /\ pc' = "loadModel"
    /\ UNCHANGED <<exitStatus, ndebug, enteredLoop, frameCalls>>
    /\ UNCHANGED <<loaderVars, texVars, inputVars, eventVars>>

LoadModel ==
    /\ pc = "loadModel"
    /\ loadModel(objFile)
    /\ runs' = runs + 1
    /\ failures' = IF objFile.ret THEN failures ELSE failures \cup {"LoadObj"}
    /\ pc' = "createBuffers"
    /\ UNCHANGED <<exitStatus, ndebug, enteredLoop, gl, frameCalls>>
    /\ UNCHANGED <<objFile, firstRun, texVars, inputVars, eventVars>>

\* Lines 198-206: glCreateBuffers, three glNamedBufferStorage, the VAO.
CreateBuffers ==
    /\ pc = "createBuffers"
    /\ gl' = LET t1 == GlCreate(GlCreate(GlCreate(gl, "buffer_VERTEX"),
                                         "buffer_ELEMENT"), "buffer_TRANSFORM")
                 t2 == GlUse(GlUse(GlUse(t1, "buffer_VERTEX"), "buffer_ELEMENT"),
                             "buffer_TRANSFORM")
             IN  GlUse(GlUse(GlCreate(t2, "vao"), "vao"), "buffer_ELEMENT")
    /\ pc' = "loadTexture"
    /\ UNCHANGED <<exitStatus, ndebug, failures, enteredLoop, frameCalls>>
    /\ UNCHANGED <<loaderVars, texVars, inputVars, eventVars>>

LoadTexture ==
    /\ pc = "loadTexture"
    /\ loadTexture(comp)
    /\ pc' = "loopTest"
    /\ UNCHANGED <<exitStatus, ndebug, enteredLoop, frameCalls>>
    /\ UNCHANGED <<comp, image, loaderVars, inputVars, eventVars>>

\* Line 218: while (!glfwWindowShouldClose(window))
LoopTest ==
    /\ pc = "loopTest"
    /\ enteredLoop' = TRUE
    /\ frameCalls' = <<>>
    /\ pc' = IF windowShouldClose THEN "teardown" ELSE "frame"
    /\ UNCHANGED <<exitStatus, ndebug, failures, gl>>
    /\ UNCHANGED <<loaderVars, texVars, inputVars, eventVars>>

\* Lines 221-252.
RenderFrame ==
    /\ pc = "frame"
    /\ frameCalls' = FrameCalls(indices)
    /\ gl' = FrameUses(gl)
    /\ pc' = "poll"
    /\ UNCHANGED <<exitStatus, ndebug, failures, enteredLoop>>
    /\ UNCHANGED <<loaderVars, texVars, inputVars, eventVars>>

\* Line 253, glfwPollEvents: one pending event reaches its callback.
PollEvent ==
    /\ pc = "poll"
    /\ nEvents < MaxLoopEvents
    /\ \/ KeyEvent
       \/ CloseRequest
       \/ MouseButtonEvent
       \/ CursorPosEvent
       \/ ScrollEvent
    /\ nEvents' = nEvents + 1
    /\ UNCHANGED <<eventLog, startCursor, progVars, loaderVars, texVars>>

\* Line 253, glfwPollEvents returns: no event is pending any more.
PollReturn ==
    /\ pc = "poll"
    /\ frameCalls' = Append(frameCalls, Call("glfwPollEvents", 0))
    /\ pc' = "loopTest"
    /\ UNCHANGED <<exitStatus, ndebug, failures, enteredLoop, gl>>
    /\ UNCHANGED <<loaderVars, texVars, inputVars, eventVars>>

\* Lines 256-265.
Teardown ==
    /\ pc = "teardown"
    /\ gl' = LET t1 == GlDeleteProgram(GlDelete(gl, "pipeline"), "program")
                 t2 == GlDelete(t1, "vao")
                 t3 == GlDelete(GlDelete(GlDelete(t2, "buffer_VERTEX"),
                                         "buffer_ELEMENT"), "buffer_TRANSFORM")
             IN  GlDelete(t3, "tex")
    /\ pc' = "done"
    /\ exitStatus' = 0
    /\ UNCHANGED <<ndebug, failures, enteredLoop, frameCalls>>
    /\ UNCHANGED <<loaderVars, texVars, inputVars, eventVars>>

NoObjects == [o \in Objects |-> NoObject]
NoCopy == [vertices |-> <<>>, indices |-> <<>>]

Init ==
    /\ pc = "glfwInit"
    /\ exitStatus = 0
    /\ ndebug \in BOOLEAN
    /\ failures = {}
    /\ enteredLoop = FALSE
    /\ gl = NoObjects
    /\ frameCalls = <<>>
    /\ objFile \in MainObjFiles
    /\ vertices = <<>>
    /\ indices = <<>>
    /\ runs = 0
    /\ firstRun = NoCopy
    /\ comp = STBI_rgb_alpha
    /\ image \in MainImages
    /\ texture = NoTexture
    /\ InputInit

Next ==
    \/ GlfwInit
    \/ CreateWindow
    \/ LoadGL
    \/ CreateVertexShader
    \/ CreateFragmentShader
    \/ LinkProgram
    \/ LoadModel
    \/ CreateBuffers
    \/ LoadTexture
    \/ LoopTest
    \/ RenderFrame
    \/ PollEvent
    \/ PollReturn
    \/ Teardown

Spec == Init /\ [][Next]_vars

----------------------------------------------------------------------------
(* Drivers of single units.  Each fixes the state the unit does not touch. *)

Idle(p) ==
    /\ pc = p
    /\ exitStatus = 0
    /\ ndebug = FALSE
    /\ failures = {}
    /\ enteredLoop = FALSE
    /\ gl = NoObjects
    /\ frameCalls = <<>>

\* The input callbacks, driven from the state in which the loop is entered.
InputDriverInit ==
    /\ Idle("input")
    /\ objFile = Unreadable
    /\ vertices = <<>> /\ indices = <<>> /\ runs = 0 /\ firstRun = NoCopy
    /\ comp = STBI_rgb_alpha /\ image \in {i \in MainImages : ~i.decodable}
    /\ texture = NoTexture
    /\ InputInit

InputDispatch ==
    /\ pc = "input"
    /\ nEvents < MaxEvents
    /\ \/ KeyEvent
       \/ CloseRequest
       \/ MouseButtonEvent
       \/ CursorPosEvent
       \/ ScrollEvent
    /\ nEvents' = nEvents + 1
    /\ eventLog' = Append(eventLog, lastEvent')
    /\ UNCHANGED <<startCursor, progVars, loaderVars, texVars>>

SpecInput == InputDriverInit /\ [][InputDispatch]_vars

\* loadModel, called on a file with the global vectors empty, and called again.
LoaderDriverInit ==
    /\ Idle("load")
    /\ objFile \in ObjFiles
    /\ vertices = <<>> /\ indices = <<>> /\ runs = 0 /\ firstRun = NoCopy
    /\ comp = STBI_rgb_alpha /\ image \in {i \in MainImages : ~i.decodable}
    /\ texture = NoTexture
    /\ InputInit /\ winCursor = <<0, 0>>

LoadCall ==
    /\ pc = "load"
    /\ loadModel(objFile)
    /\ runs' = 1
    /\ firstRun' = [vertices |-> vertices', indices |-> indices']
    /\ pc' = "loaded"
    /\ UNCHANGED <<exitStatus, ndebug, failures, enteredLoop, gl, frameCalls>>
    /\ UNCHANGED <<objFile, texVars, inputVars, eventVars>>

ReloadCall ==
    /\ pc = "loaded"
    /\ loadModel(objFile)
    /\ runs' = 2
    /\ pc' = "reloaded"
    /\ UNCHANGED <<exitStatus, ndebug, failures, enteredLoop, gl, frameCalls>>
    /\ UNCHANGED <<objFile, firstRun, texVars, inputVars, eventVars>>

SpecLoad == LoaderDriverInit /\ [][LoadCall]_vars

SpecReload == LoaderDriverInit /\ [][LoadCall \/ ReloadCall]_vars

\* loadTexture, called with any channel layout on any image file.
TextureDriverInit ==
    /\ Idle("texture")
    /\ objFile = Unreadable
    /\ vertices = <<>> /\ indices = <<>> /\ runs = 0 /\ firstRun = NoCopy
    /\ comp \in 0..MaxComp
    /\ image \in Images
    /\ texture = NoTexture
    /\ InputInit /\ winCursor = <<0, 0>>

TextureCall ==
    /\ pc = "texture"
    /\ loadTexture(comp)
    /\ pc' = "textured"
    /\ UNCHANGED <<exitStatus, ndebug, enteredLoop, frameCalls>>
    /\ UNCHANGED <<comp, image, loaderVars, inputVars, eventVars>>

SpecTexture == TextureDriverInit /\ [][TextureCall]_vars


----------------------------------------------------------------------------
(* Properties of the geometry loader *)

\* What a file says about one reference, read straight from its arrays.
PositionAt(file, r) ==
    SubSeq(file.attrib.vertices, 3 * r.vertex_index + 1, 3 * r.vertex_index + 3)

TexcoordAt(file, r) ==
    SubSeq(file.attrib.texcoords, 2 * r.texcoord_index + 1, 2 * r.texcoord_index + 2)

\* The (position, texcoord) pairs of the references, in file order.
PairStream(file) ==
    LET stream == FaceStream(file)
    IN  [k \in 1..Len(stream) |->
            <<PositionAt(file, stream[k]), TexcoordAt(file, stream[k])>>]

Range(seq) == {seq[k] : k \in 1..Len(seq)}

\* C1: after loadModel the vertex list holds no two equal entries, has as
\* many entries as the faces reference distinct (position, texcoord) pairs,
\* the index list has one entry per face-vertex reference, and every index
\* is below the length of the vertex list.
C1_DedupInvariant ==
    pc = "loaded" =>
        LET pairs == PairStream(objFile)
        IN  /\ \A i, j \in 1..Len(vertices) : i /= j => vertices[i] /= vertices[j]
            /\ Len(vertices) = Cardinality(Range(pairs))
            /\ Len(indices) = Len(pairs)
            /\ \A k \in 1..Len(indices) : indices[k] >= 0 /\ indices[k] < Len(vertices)

\* Two faces whose six references name three different index pairs but only
\* two different values.
C1_Witness ==
    /\ pc = "loaded"
    /\ Len(indices) = 6
    /\ Cardinality(Range(FaceStream(objFile))) = 3
    /\ Len(vertices) = 2

\* The candidate of a pair: position with w = 1, white, texcoord.
CandidateOf(pair) ==
    [position |-> pair[1] \o <<1>>, color |-> <<1, 1, 1, 1>>, texcoord |-> pair[2]]

\* The references at which a pair occurs for the first time.
FirstRefs(pairs) ==
    {k \in 1..Len(pairs) : \A j \in 1..(k - 1) : pairs[j] /= pairs[k]}

\* C10: the index list reconstructs the face stream (vertices[indices[k]] is
\* the candidate of the k-th reference), and the vertex list holds the
\* candidates in the order of their first occurrence: a new candidate gets
\* the previous length of the vertex list as its index, a seen one reuses
\* the index recorded for it.
C10_IndexReconstruction ==
    pc = "loaded" =>
        LET pairs == PairStream(objFile)
            firsts == FirstRefs(pairs)
        IN  /\ Len(indices) = Len(pairs)
            /\ Len(vertices) = Cardinality(firsts)
            /\ \A k \in 1..Len(indices) :
                 LET first == CHOOSE f \in firsts : pairs[f] = pairs[k]
                 IN  /\ indices[k] \in 0..(Len(vertices) - 1)
                     /\ vertices[indices[k] + 1] = CandidateOf(pairs[k])
                     /\ indices[k] = Cardinality({g \in firsts : g < first})

\* A reference that reuses an index, followed by one that appends a vertex.
C10_Witness ==
    /\ pc = "loaded"
    /\ \E k \in 1..Len(indices) :
         /\ k \notin FirstRefs(PairStream(objFile))
         /\ \E j \in (k + 1)..Len(indices) :
              j \in FirstRefs(PairStream(objFile)) /\ indices[j] = Len(vertices) - 1

\* C2: running loadModel a second time on the same file leaves the vertex
\* and index lists as they were after the first run.
C2_ReloadIdentical ==
    runs = 2 => vertices = firstRun.vertices /\ indices = firstRun.indices

----------------------------------------------------------------------------
(* Properties of the input callbacks: the state the callbacks have built   *)
(* is compared with a reference interpretation of the events dispatched.   *)

MaxOf(a, b) == IF a >= b THEN a ELSE b

RECURSIVE RefZoom(_, _)
RefZoom(z, log) ==
    IF log = <<>> THEN z
    ELSE LET e == Head(log)
         IN  RefZoom(IF e.type = "scroll" THEN MaxOf(0, z + e.b) ELSE z, Tail(log))

\* C3: from zoom = 40, whatever events arrive, zoom is never below 0 and
\* every scroll event of y units sets it to max(0, zoom + y/4), in or out of
\* drag mode (in model units of 1/4: max(0, zoom + y)); nothing else moves it.
C3_ZoomClamp ==
    /\ zoom >= 0
    /\ pc = "input" => zoom = RefZoom(InitialZoom * ZoomScale, eventLog)

\* A scroll in drag mode that would have taken zoom below 0.
C3_Witness ==
    /\ pc = "input"
    /\ cursorMode = "GLFW_CURSOR_DISABLED"
    /\ lastEvent = ScrollEv(0, -200)
    /\ zoom = 0

RefStep(st, e) ==
    CASE e.type = "button" /\ e.name = "GLFW_MOUSE_BUTTON_LEFT" /\ e.action = "GLFW_PRESS"
            -> [st EXCEPT !.drag = TRUE, !.base = st.cur]
      [] e.type = "button" /\ e.name = "GLFW_MOUSE_BUTTON_LEFT" /\ e.action = "GLFW_RELEASE"
            -> [st EXCEPT !.drag = FALSE]
      [] e.type = "cursor" /\ st.drag
            -> [st EXCEPT !.rot = <<st.rot[1] + (e.a - st.base[1]),
                                    st.rot[2] + (e.b - st.base[2])>>,
                          !.base = <<e.a, e.b>>,
                          !.cur = <<e.a, e.b>>]
      [] e.type = "cursor" /\ ~st.drag
            -> [st EXCEPT !.cur = <<e.a, e.b>>]
      [] OTHER -> st

RECURSIVE RefInput(_, _)
RefInput(st, log) ==
    IF log = <<>> THEN st ELSE RefInput(RefStep(st, Head(log)), Tail(log))

RefStart ==
    [drag |-> FALSE, base |-> <<0, 0>>, cur |-> startCursor, rot |-> <<0, 0>>]

\* C8: drag mode is entered only by a press of the primary button, which
\* takes the current cursor position as baseline, and left by its release;
\* other buttons change nothing; a cursor event outside drag mode leaves
\* rotation and baseline alone; so rotation is the sum, over the cursor
\* events received in drag mode, of (new position - baseline), in units of
\* 1/10 degree, without wraparound.
C8_RotationByDrag ==
    pc = "input" =>
        LET ref == RefInput(RefStart, eventLog)
        IN  /\ (cursorMode = "GLFW_CURSOR_DISABLED") = ref.drag
            /\ <<cursorX, cursorY>> = ref.base
            /\ rotation = ref.rot

\* Press, drag, release: the rotation of the drag stays.
C8_Witness ==
    /\ pc = "input"
    /\ nEvents = 3
    /\ lastEvent = ButtonEv("GLFW_MOUSE_BUTTON_LEFT", "GLFW_RELEASE")
    /\ cursorMode = "GLFW_CURSOR_NORMAL"
    /\ rotation = <<30, -20>>

----------------------------------------------------------------------------
(* Properties of the texture loader *)

ExpectedFormat(channels) ==
    IF channels = 1 THEN <<"GL_R8", "GL_RED">>
    ELSE IF channels = 2 THEN <<"GL_RG8", "GL_RG">>
    ELSE IF channels = 3 THEN <<"GL_RGB8", "GL_RGB">>
    ELSE <<"GL_RGBA8", "GL_RGBA">>

\* C9: the texture is built with (R8, RED) for 1 requested channel, (RG8, RG)
\* for 2, (RGB8, RGB) for 3, (RGBA8, RGBA) for 4, and with the pair of 4 for
\* every other requested value.
C9_FormatMapping ==
    pc = "textured" =>
        <<texture.internalformat, texture.format>> = ExpectedFormat(comp)

\* A request that is none of 1..4, on a file that decodes.
C9_Witness ==
    /\ pc = "textured"
    /\ comp = 0
    /\ texture.uploaded
    /\ texture.internalformat = "GL_RGBA8"

----------------------------------------------------------------------------
(* Properties of main() *)

Positions(name) == {k \in 1..Len(frameCalls) : frameCalls[k].call = name}

InIteration == pc = "poll" \/ (pc = "loopTest" /\ enteredLoop)

FrameDrawsOnce ==
    InIteration =>
        /\ Cardinality(Positions("glDrawElementsInstanced")) = 1
        /\ \A d \in Positions("glDrawElementsInstanced") :
             /\ frameCalls[d].arg = Len(indices)
             /\ \E m, w, u \in 1..d :
                  /\ m < w /\ w < u /\ u < d
                  /\ frameCalls[m].call = "glMapNamedBufferRange"
                  /\ frameCalls[w].call = "write MVP"
                  /\ frameCalls[u].call = "glUnmapNamedBuffer"

CameraMovesOnlyOnEvent ==
    (zoom' /= zoom \/ rotation' /= rotation) => (pc = "poll" /\ nEvents' = nEvents + 1)

\* C4: every loop iteration issues exactly one draw call, over the whole
\* index list, after mapping, writing and unmapping the transform buffer in
\* that iteration; zoom and rotation change only when the poll step
\* dispatches an event.
C4_FrameEffect == []FrameDrawsOnce /\ [][CameraMovesOnlyOnEvent]_vars

\* An iteration on a one-triangle mesh that dispatched no event.
C4_Witness ==
    /\ pc = "loopTest" /\ enteredLoop
    /\ nEvents = 0
    /\ Len(indices) = 3
    /\ frameCalls[11] = Call("glDrawElementsInstanced", 3)
    /\ zoom = InitialZoom * ZoomScale /\ rotation = <<0, 0>>

LoopPcs == {"loopTest", "frame", "poll"}

CloseSignalStep ==
    /\ (pc \in LoopPcs /\ pc' \notin LoopPcs) => (windowShouldClose /\ pc' = "teardown")
    /\ (~windowShouldClose /\ windowShouldClose') =>
          /\ pc = "poll" /\ nEvents' = nEvents + 1
          /\ lastEvent' \in {CloseEv, KeyEv("GLFW_KEY_ESCAPE", "GLFW_PRESS")}
    /\ windowShouldClose => (windowShouldClose' /\ pc' /= "frame")
    /\ (pc = "loopTest" /\ pc' /= pc) =>
          pc' = (IF windowShouldClose THEN "teardown" ELSE "frame")

\* C5: the loop is left only with the close flag set; the flag is set only
\* by a close request or a press of Escape; once it is set no further frame
\* is drawn and the next test of the flag leads to teardown.
C5_CloseSignal == [][CloseSignalStep]_vars

\* Escape was pressed and main() has returned.
C5_Witness ==
    /\ pc = "done" /\ exitStatus = 0
    /\ lastEvent = KeyEv("GLFW_KEY_ESCAPE", "GLFW_PRESS")
    /\ windowShouldClose

\* C6: every GL object is deleted exactly once and never handed to GL after
\* its destruction, for every build configuration, compile and link outcome
\* and info-log content.
C6_DestroyedExactlyOnce ==
    \A o \in Objects :
        /\ gl[o].deletes <= 1
        /\ ~gl[o].usedDead
        /\ (pc = "done" /\ gl[o].state /= "none") =>
               (gl[o].state = "dead" /\ gl[o].deletes = 1)

InitSteps == {"glfwInit", "glfwCreateWindow", "gladLoadGLLoader"}

\* C7: main() returns non-zero, without entering the loop, exactly when one
\* of the three initialisation steps failed; a failed mesh load, image
\* decode, shader compile or link does not stop it: it reaches the loop and
\* returns 0 after the close signal.
C7_FatalOnlyAtInit ==
    /\ (failures \cap InitSteps /= {}) =>
           (pc = "done" /\ exitStatus /= 0 /\ ~enteredLoop)
    /\ (exitStatus /= 0) => (failures \cap InitSteps /= {})
    /\ (pc = "done" /\ failures \cap InitSteps = {}) =>
           (exitStatus = 0 /\ enteredLoop /\ windowShouldClose)

\* Every asset and shader failure at once, and main() returned 0.
C7_Witness ==
    /\ pc = "done" /\ exitStatus = 0 /\ enteredLoop
    /\ {"LoadObj", "stbi_load", "compile", "link"} \subseteq failures

=============================================================================
